---- MODULE Spec2Model ----
(***************************************************************************)
(* The Toggle components of react-patterns as one state machine.           *)
(*                                                                         *)
(*   variant "initializers"  README.md section 6 (State Initializers)      *)
(*   variant "reducer"       unnamed/part_000     (State Reducers)         *)
(*   variant "typed"         README.md section 8 (State Reducers, Types)   *)
(*   variant "control"       src/exercises/10.js  (Control Props)          *)
(*                                                                         *)
(* A JavaScript value is a record [t, v]: t is its typeof-like tag and v   *)
(* the object's key->value mapping (the empty mapping for non-objects).    *)
(* An object is a TLA+ function from its keys to its values.               *)
(***************************************************************************)
EXTENDS Integers, Sequences, FiniteSets, TLC

VARIABLES variant, props, initialState, state, timesClicked, nToggles,
          onlyToggles, last, usage, instances, queue

vars ==
  <<variant, props, initialState, state, timesClicked, nToggles,
    onlyToggles, last, usage, instances, queue>>

\* Bound on the clicks Usage has counted when a toggle is requested, and on
\* the toggle calls made on the Toggles of the Control Props Usage.
MaxToggles == 6

\* Usage.toggleStateReducer forces on:false from this click count on.
ClickLimit == 4

\* Bound on the number of toggle calls handled before React renders again.
MaxBatch == 3

\* Bound on the number of updates handed to setState before React processes
\* them.
MaxPending == 2

-----------------------------------------------------------------------------
(* JavaScript values and objects *)

EmptyObj == << >>

JSObj(o) == [t |-> "obj", v |-> o]

JSUndefined == [t |-> "undefined", v |-> EmptyObj]

JSNull == [t |-> "null", v |-> EmptyObj]

\* A function value; v holds the variables its closure captured.
JSFunction(env) == [t |-> "function", v |-> env]

\* The number 5: it has no own enumerable keys.
JSNumber == [t |-> "number", v |-> EmptyObj]

\* The string 'ab': its own enumerable keys are its indices.
JSString == [t |-> "string", v |-> ("0" :> "a") @@ ("1" :> "b")]

\* The outcome of an evaluation that threw a TypeError.
JSThrow == [t |-> "throw", v |-> EmptyObj]

\* undefined and null are falsy; objects, functions, 5 and 'ab' are truthy.
Truthy(x) == x.t \in {"obj", "function", "number", "string"}

\* value || {}
OrEmpty(x) == IF Truthy(x) THEN x ELSE JSObj(EmptyObj)

\* {...a, ...b}
Spread(a, b) == b @@ a

\* const {[k]: ignored, ...rest} = o
Rest(o, k) == [x \in (DOMAIN o) \ {k} |-> o[x]]

\* An optional prop: Undefined when the consumer does not supply it.
Undefined == {}

Some(x) == {x}

Val(opt) == CHOOSE x \in opt : TRUE

-----------------------------------------------------------------------------
(* Consumer-supplied stateReducer props *)

\* Toggle.defaultProps.stateReducer
identityReducer(st, changes) == changes

\* Mutation: the reducer starts forcing one click late (> instead of >=).
toggleStateReducer_OneLate(st, changes, tc) ==
  IF tc > ClickLimit
    THEN JSObj(Spread(changes.v, [on |-> FALSE]))
    ELSE changes

\* Usage.toggleStateReducer of the State Reducers exercise
toggleStateReducer(st, changes, tc) ==
  IF tc >= ClickLimit
    THEN JSObj(Spread(changes.v, [on |-> FALSE]))
    ELSE changes

\* Mutation: no bypass for changes.type === 'forced'.
toggleStateReducerTyped_NoBypass(st, changes, tc) ==
  IF changes.t \in {"null", "undefined"}
    THEN JSThrow
    ELSE IF tc >= ClickLimit
           THEN JSObj(Spread(changes.v, [on |-> FALSE]))
           ELSE changes

\* Usage.toggleStateReducer of the typed variant
toggleStateReducerTyped(st, changes, tc) ==
  IF changes.t \in {"null", "undefined"}
    THEN JSThrow
    ELSE IF "type" \in DOMAIN changes.v /\ changes.v.type = "forced"
           THEN changes
           ELSE IF tc >= ClickLimit
                  THEN JSObj(Spread(changes.v, [on |-> FALSE]))
                  ELSE changes

\* (_, changes) => ({...changes, on: false})
forceOffReducer(st, changes) == JSObj(Spread(changes.v, [on |-> FALSE]))

\* () => ({})
vetoReducer(st, changes) == JSObj(EmptyObj)

\* () => {}   (returns nothing)
nothingReducer(st, changes) == JSUndefined

\* (_, changes) => ({...changes, type: 'custom'})
taggingReducer(st, changes) == JSObj(Spread(changes.v, [type |-> "custom"]))

Reducers ==
  {"identity", "usage", "usageTyped", "forceOff", "veto", "nothing", "tagging"}

\* this.props.stateReducer(currentState, c)
stateReducer(name, st, changes, tc) ==
  CASE name = "identity"   -> identityReducer(st, changes)
    [] name = "usage"      -> toggleStateReducer(st, changes, tc)
    [] name = "usageTyped" -> toggleStateReducerTyped(st, changes, tc)
    [] name = "forceOff"   -> forceOffReducer(st, changes)
    [] name = "veto"       -> vetoReducer(st, changes)
    [] name = "nothing"    -> nothingReducer(st, changes)
    [] name = "tagging"    -> taggingReducer(st, changes)

\* The consumer is the Usage component (its reducer comes with its handlers).
IsUsage(p) == p.stateReducer \in {"usage", "usageTyped"}

\* Usage.handleToggle: timesClicked + 1
handleToggle(p, tc) == IF IsUsage(p) THEN tc + 1 ELSE tc

\* Usage.handleReset: setState(initialState) with initialState = {timesClicked: 0}
handleReset(p, tc) == IF IsUsage(p) THEN 0 ELSE tc

-----------------------------------------------------------------------------
(* React's setState(updater, callback): the call only records its          *)
(* arguments; React runs the updaters of the recorded updates in order,    *)
(* commits, and then calls the callbacks.  A null partial state is no      *)
(* update, any other partial state is shallow-merged into the state bag.   *)

setState(st, partial) ==
  IF partial.t = "null" THEN st ELSE Spread(st, partial.v)

\* One delivery of a lifecycle callback: its argument, what this.state.on /
\* getState('on') reads at that moment, and whether the commit had happened.
Callback(name, value, seen, phase) ==
  [name |-> name, value |-> value, seen |-> seen, phase |-> phase]

\* What one updater did: the reducer calls it made, the reduced change, the
\* partial state it returned to React, the state bag with it merged.
Outcome(calls, reduced, partial, st, cbs) ==
  [calls |-> calls, reduced |-> reduced, partial |-> partial,
   state |-> st, cbs |-> cbs, thrown |-> FALSE, trace |-> <<>>]

\* this.props[name](value): a TypeError when the consumer supplied no such
\* handler and defaultProps has none.
Notify(r, name, present, value, seen, phase) ==
  IF r.thrown THEN r
  ELSE IF present
    THEN [r EXCEPT !.cbs = Append(@, Callback(name, value, seen, phase))]
    ELSE [r EXCEPT !.thrown = TRUE]

\* The setState callback () => this.props[name](this.state.on), run by React
\* after the commit.
Settle(r, name, present) ==
  Notify(r, name, present, r.state.on, r.state.on, "post")

\* An updater that has not touched the state bag.
NoOutcome(st) == Outcome(<<>>, JSObj(EmptyObj), JSNull, st, <<>>)

\* The arguments of one this.setState call: which updater ("reducer",
\* "typed": the internalSetState pipelines; "direct", "control": the update
\* itself), the change requested, the callback's handler ("none": no callback).
Update(kind, changes, cb) == [kind |-> kind, changes |-> changes, cb |-> cb]

\* What a handler did before it returned: the updates it handed to setState,
\* the consumer's handlers it called itself, whether an exception left it,
\* and (for a composed handler) the calls it made.
Ran(queued, cbs, thrown) ==
  [queued |-> queued, cbs |-> cbs, thrown |-> thrown, trace |-> <<>>]

\* this.setState(..., ...) and return
Enqueue(kind, changes, cb) == Ran(<<Update(kind, changes, cb)>>, <<>>, FALSE)

-----------------------------------------------------------------------------
(* State Reducers Toggle (unnamed/part_000) *)

\* Mutation: the updater sets `on` instead of negating it.
toggleUpdater_SetsOn(st) == [on |-> TRUE]

\* state => ({on: !state.on})
toggleUpdater(st) == [on |-> ~st.on]

\* ({on}) => ({on: !on, type})
toggleUpdaterTyped(st, type) == [on |-> ~st.on, type |-> type]

\* typeof c === 'function' ? c(currentState) : c
Resolve(c, st) ==
  IF c.t = "function"
    THEN IF "type" \in DOMAIN c.v
           THEN JSObj(toggleUpdaterTyped(st, c.v.type))
           ELSE JSObj(toggleUpdater(st))
    ELSE c

\* Mutation: the raw request is committed, the reducer's output dropped.
internalSetState_RawRequest(st, changes, p, tc) ==
  LET c1 == Resolve(changes, st)
      r  == stateReducer(p.stateReducer, st, c1, tc)
      c2 == OrEmpty(r)
      c3 == IF Cardinality(DOMAIN c1.v) > 0 THEN c1 ELSE JSNull
  IN  [Outcome(<<[state |-> st, changes |-> c1]>>, c2, c3,
               setState(st, c3), <<>>)
         EXCEPT !.thrown = (r.t = "throw")]

\* Mutation: stateReducer(...) || c, a reducer returning nothing lets the
\* request through.
internalSetState_FallsBack(st, changes, p, tc) ==
  LET c1 == Resolve(changes, st)
      r  == stateReducer(p.stateReducer, st, c1, tc)
      c2 == IF Truthy(r) THEN r ELSE c1
      c3 == IF Cardinality(DOMAIN c2.v) > 0 THEN c2 ELSE JSNull
  IN  [Outcome(<<[state |-> st, changes |-> c1]>>, c2, c3,
               setState(st, c3), <<>>)
         EXCEPT !.thrown = (r.t = "throw")]

\* Mutation: the reducer is applied a second time, to its own output.
internalSetState_Twice(st, changes, p, tc) ==
  LET c1 == Resolve(changes, st)
      r1 == OrEmpty(stateReducer(p.stateReducer, st, c1, tc))
      r  == stateReducer(p.stateReducer, st, r1, tc)
      c2 == OrEmpty(r)
      c3 == IF Cardinality(DOMAIN c2.v) > 0 THEN c2 ELSE JSNull
  IN  [Outcome(<<[state |-> st, changes |-> c1],
                 [state |-> st, changes |-> r1]>>, c2, c3,
               setState(st, c3), <<>>)
         EXCEPT !.thrown = (r.t = "throw")]

\* The updater internalSetState hands to this.setState, run by React on the
\* state bag as it stands (currentState).  A reducer that throws leaves the
\* updater without a result.
internalSetState(st, changes, p, tc) ==
  LET c1 == Resolve(changes, st)
      r  == stateReducer(p.stateReducer, st, c1, tc)
      c2 == OrEmpty(r)
      c3 == IF Cardinality(DOMAIN c2.v) > 0 THEN c2 ELSE JSNull
  IN  [Outcome(<<[state |-> st, changes |-> c1]>>, c2, c3,
               setState(st, c3), <<>>)
         EXCEPT !.thrown = (r.t = "throw")]

\* toggle = () => this.internalSetState(updater, () => this.props.onToggle(...))
toggle == Enqueue("reducer", JSFunction(EmptyObj), "onToggle")

\* Mutation: reset proposes the current state instead of the snapshot.
reset_CurrentState(st, init) == Enqueue("reducer", JSObj(st), "onReset")

\* Mutation: reset calls setState directly, bypassing the reducer.
reset_BypassesReducer(st, init) == Enqueue("direct", JSObj(init), "onReset")

\* reset = () => this.internalSetState(this.initialState, () => onReset(...))
reset(st, init) == Enqueue("reducer", JSObj(init), "onReset")

-----------------------------------------------------------------------------
(* State Reducers with Types Toggle (README.md section 8) *)

\* The updater of the typed internalSetState: the type tag is taken off the
\* reducer's output before it is returned to React.
internalSetStateTyped(st, changes, p, tc) ==
  LET changesObject == Resolve(changes, st)
      r == stateReducer(p.stateReducer, st, changesObject, tc)
      reducedChanges == OrEmpty(r)
      remainingChanges == JSObj(Rest(reducedChanges.v, "type"))
      partial == IF Cardinality(DOMAIN remainingChanges.v) > 0
                   THEN remainingChanges ELSE JSNull
  IN  [Outcome(<<[state |-> st, changes |-> changesObject]>>, reducedChanges,
               partial, setState(st, partial), <<>>)
         EXCEPT !.thrown = (r.t = "throw")]

\* ({type = Toggle.stateChangeTypes.toggle} = {})
toggleTypeOf(arg) ==
  LET a == IF arg.t = "undefined" THEN EmptyObj ELSE arg.v
  IN  IF "type" \in DOMAIN a THEN a.type ELSE "toggle"

toggleTyped(arg) ==
  Enqueue("typed", JSFunction([type |-> toggleTypeOf(arg)]), "onToggle")

resetTyped(init) ==
  Enqueue("typed", JSObj(Spread(init, [type |-> "reset"])), "onReset")

-----------------------------------------------------------------------------
(* State Initializers Toggle (README.md section 6) *)

\* this.setState(({on}) => ({on: !on}), () => this.props.onToggle(this.state.on))
toggleInitializers == Enqueue("direct", JSFunction(EmptyObj), "onToggle")

\* this.setState(this.initialState, this.props.onReset(defaultOn)):
\* onReset runs while the arguments of setState are evaluated, and setState
\* is not reached when that call throws.
resetInitializers(st, init, defaultOn, p) ==
  LET pre == Notify(Ran(<<>>, <<>>, FALSE), "onReset", p.onReset, defaultOn,
                    st.on, "pre")
  IN  IF pre.thrown THEN pre
      ELSE [pre EXCEPT !.queued = <<Update("direct", JSObj(init), "none")>>]

-----------------------------------------------------------------------------
(* Control Props Toggle (src/exercises/10.js) *)

isControlled(p, prop) == p[prop] # Undefined

\* Mutation: the state bag is read whatever the props supply.
getState_IgnoresProps(st, p, prop) == st[prop]

getState(st, p, prop) ==
  IF isControlled(p, prop) THEN Val(p[prop]) ELSE st[prop]

\* const on = this.getState('on'): what the Switch is rendered with
render(st, p) == getState(st, p, "on")

\* Mutation: toggle commits without asking isControlled.
toggleControl_AlwaysCommits(st, p) ==
  Enqueue("control", JSFunction(EmptyObj), "onToggle")

\* Controlled: onToggle is called by toggle itself; otherwise the update and
\* its callback () => this.props.onToggle(this.getState('on')) go to setState.
toggleControl(st, p) ==
  IF isControlled(p, "on")
    THEN Notify(Ran(<<>>, <<>>, FALSE), "onToggle", p.onToggle,
                ~getState(st, p, "on"), getState(st, p, "on"), "none")
    ELSE Enqueue("control", JSFunction(EmptyObj), "onToggle")

-----------------------------------------------------------------------------
(* React processing the recorded updates *)

\* this.props[name] is a function: the consumer's handler or the one
\* defaultProps supplies.
HasHandler(p, name) == IF name = "onReset" THEN p.onReset ELSE p.onToggle

\* The updater of one recorded update applied to the state bag as it stands.
applyUpdate(u, st, p, tc) ==
  CASE u.kind = "reducer" -> internalSetState(st, u.changes, p, tc)
    [] u.kind = "typed"   -> internalSetStateTyped(st, u.changes, p, tc)
    [] OTHER ->
         LET c == Resolve(u.changes, st)
         IN  Outcome(<<>>, c, c, setState(st, c), <<>>)

\* What processing one update did: the update with the handler call that
\* made it, the state bag its updater started from and the one it produced,
\* the clicks Usage had counted, and the updater's outcome o.
Record(u, st, tc, o) ==
  [op |-> u.op, arg |-> u.arg, kind |-> u.kind, cb |-> u.cb,
   before |-> st, after |-> o.state, clicks |-> tc, calls |-> o.calls,
   reduced |-> o.reduced, partial |-> o.partial, settled |-> {}]

RECURSIVE processUpdateQueue(_, _, _, _, _, _)

\* The updater of q[k] had outcome o: the processing ends when it threw and
\* goes on with q[k + 1] on the state bag it produced otherwise.
afterUpdater(q, k, st, p, tc, recs, o) ==
  IF o.thrown
    THEN [state |-> st, recs |-> Append(recs, Record(q[k], st, tc, o)),
          thrown |-> TRUE]
    ELSE processUpdateQueue(q, k + 1, o.state, p, tc,
                            Append(recs, Record(q[k], st, tc, o)))

\* The updaters of the updates q[k..] run in order, each on the result of the
\* one before; an updater that throws ends the processing.
processUpdateQueue(q, k, st, p, tc, recs) ==
  IF k > Len(q) THEN [state |-> st, recs |-> recs, thrown |-> FALSE]
  ELSE afterUpdater(q, k, st, p, tc, recs, applyUpdate(q[k], st, p, tc))

\* The callback of update u called on the committed state: the Control Props
\* Toggle's reads getState('on'), the others this.state.on.
callCallback(run, u, p) ==
  IF u.kind = "control"
    THEN Notify(run, u.cb, HasHandler(p, u.cb), getState(run.state, p, "on"),
                getState(run.state, p, "on"), "post")
    ELSE Settle(run, u.cb, HasHandler(p, u.cb))

\* run.of lists the updates whose callback was delivered.
Delivered(next, k) ==
  IF next.thrown THEN next ELSE [next EXCEPT !.of = Append(@, k)]

\* The callbacks of the updates q[k..] called in order after the commit, each
\* reading the committed state; a callback that throws ends the calls.
RECURSIVE commitCallbacks(_, _, _, _)
commitCallbacks(q, k, p, run) ==
  IF k > Len(q) \/ run.thrown THEN run
  ELSE IF q[k].cb = "none" THEN commitCallbacks(q, k + 1, p, run)
  ELSE commitCallbacks(q, k + 1, p, Delivered(callCallback(run, q[k], p), k))

\* The committed state bag, the callbacks delivered (c) and the processed
\* updates (recs), each with the callback delivered for it.
Flushed(st, recs, c) ==
  [state |-> st, cbs |-> c.cbs, thrown |-> c.thrown,
   recs |-> [k \in 1..Len(recs) |->
               [recs[k] EXCEPT !.settled =
                  {c.cbs[j] : j \in {i \in 1..Len(c.of) : c.of[i] = k}}]]]

\* The commit after the updaters ran (done): nothing is committed and no
\* callback is called when an updater threw.
commitRoot(q, st, p, done) ==
  IF done.thrown
    THEN Flushed(st, done.recs,
                 [cbs |-> <<>>, thrown |-> TRUE, of |-> <<>>])
    ELSE Flushed(done.state, done.recs,
                 commitCallbacks(q, 1, p,
                                 [state |-> done.state, cbs |-> <<>>,
                                  thrown |-> FALSE, of |-> <<>>]))

\* React processing the recorded updates q of a component with state bag st:
\* updaters, commit, callbacks.
flush(q, st, p, tc) ==
  commitRoot(q, st, p, processUpdateQueue(q, 1, st, p, tc, <<>>))

\* An update with the handler call that made it.
Tagged(u, op, arg) ==
  [kind |-> u.kind, changes |-> u.changes, cb |-> u.cb, op |-> op,
   arg |-> arg]

TagAll(us, op, arg) == [k \in 1..Len(us) |-> Tagged(us[k], op, arg)]

-----------------------------------------------------------------------------
(* Control Props Usage (src/exercises/10.js): two Toggles owned by bothOn *)

\* Mutation: the owner negates its own value instead of storing the proposal.
handleToggleControl_Negates(us, on) == [us EXCEPT !.bothOn = ~@]

\* Usage.handleToggle = on => this.setState({bothOn: on})
handleToggleControl(us, on) == setState(us, JSObj([bothOn |-> on]))

\* Mutation: only the first Toggle is given the `on` prop.
renderUsage_FirstOnly(us) ==
  [i \in 1..2 |->
     [on |-> IF i = 1 THEN Some(us.bothOn) ELSE Undefined, onToggle |-> TRUE]]

\* Usage.render: <Toggle on={bothOn} onToggle={this.handleToggle} /> twice
renderUsage(us) ==
  [i \in 1..2 |-> [on |-> Some(us.bothOn), onToggle |-> TRUE]]

\* Usage.handleToggle called with the value of each onToggle call in turn;
\* React applies its state updates in the order they were made.
RECURSIVE ownerAfter(_, _)
ownerAfter(us, cbs) ==
  IF cbs = <<>> THEN us
  ELSE ownerAfter(handleToggleControl(us, Head(cbs).value), Tail(cbs))

\* toggle() called on the Toggles is[k], is[k+1], ... with the props of the
\* last render: what each call handed to its Toggle's setState and the
\* onToggle calls made.
RECURSIVE runBatch(_, _, _, _)
runBatch(is, k, insts, cbs) ==
  IF k > Len(is)
    THEN [instances |-> insts, cbs |-> cbs]
    ELSE LET i == is[k]
             r == toggleControl(insts[i].state, insts[i].props)
         IN  runBatch(is, k + 1,
                      [insts EXCEPT ![i].queue =
                                      @ \o TagAll(r.queued, "toggle", "none")],
                      cbs \o r.cbs)

-----------------------------------------------------------------------------
(* Inputs *)

Variants == {"initializers", "reducer", "typed", "control"}

\* The arguments callers hand to toggle.
ToggleArgs == {"none", "empty", "forced"}

\* The argument a caller hands to toggle / the event a click carries.
ToggleArg(name) ==
  CASE name = "none"   -> JSUndefined
    [] name = "empty"  -> JSObj(EmptyObj)
    [] name = "forced" -> JSObj([type |-> "forced"])
    [] name = "event"  -> JSObj([type |-> "click"])

ProposeArgs == {"empty", "onTrue", "number", "string", "null"}

\* Requests that are neither a mapping nor a function.
Malformed == {"number", "string", "null"}

\* A change request handed to internalSetState.
ProposeArg(name) ==
  CASE name = "empty"   -> JSObj(EmptyObj)
    [] name = "onTrue"  -> JSObj([on |-> TRUE])
    [] name = "number"  -> JSNumber
    [] name = "string"  -> JSString
    [] name = "null"    -> JSNull

BoolName(b) == IF b THEN "true" ELSE "false"

\* The stateReducer props a consumer of each Toggle supplies here.
ReducersOf(v) ==
  CASE v = "initializers" -> {"identity"}
    [] v = "reducer" ->
         {"identity", "usage", "forceOff", "veto", "nothing", "tagging"}
    [] v = "typed" ->
         {"identity", "usageTyped", "forceOff", "veto", "nothing", "tagging"}
    [] v = "control" -> {"identity", "forceOff"}

\* The Toggles (1 or 2) whose toggle() is called before the next render.
Batches == UNION {[1..n -> 1..2] : n \in 1..MaxBatch}

\* A handler handed to callAll: absent (undefined), a consumer's handler that
\* returns, a consumer's handler that throws, the Toggle's own toggle.
HandlerKinds == {"absent", "log", "throw", "toggle"}

\* Bound on the number of handlers composed by one callAll.
MaxHandlers == 3

\* The compositions tried: at most one of the handlers is the Toggle's.
HandlerLists ==
  {fns \in UNION {[1..n -> HandlerKinds] : n \in 0..MaxHandlers} :
     Cardinality({i \in DOMAIN fns : fns[i] = "toggle"}) <= 1}

OverrideNames == {"noarg", "empty", "on", "aria", "log", "throw"}

\* The argument of getTogglerProps.
Override(name, st) ==
  CASE name = "noarg" -> JSUndefined
    [] name = "empty" -> JSObj(EmptyObj)
    [] name = "on"    -> JSObj([on |-> st.on])
    [] name = "aria"  ->
         JSObj(("aria-pressed" :> ~st.on) @@ ("id" :> "custom-button-id"))
    [] name = "log"   ->
         JSObj(("onClick" :> "log") @@ ("aria-label" :> "custom-button"))
    [] name = "throw" -> JSObj([onClick |-> "throw"])

-----------------------------------------------------------------------------
(* Prop getters and handler composition *)

\* this.toggle called by callAll with the click's arguments: it takes none
onClickReducer(ev) == toggle

\* Mutation: callAll(onClick, this.toggle), the click's event reaches toggle.
onClickTyped_ForwardsEvent(ev) == toggleTyped(ev)

\* () => this.toggle() called by callAll with the click's arguments
onClickTyped(ev) == toggleTyped(JSUndefined)

\* The Toggle's own click handler, called with the event.
engineOnClick(v, st, ev, p) ==
  CASE v = "reducer"      -> onClickReducer(ev)
    [] v = "typed"        -> onClickTyped(ev)
    [] v = "initializers" -> toggleInitializers
    [] v = "control"      -> toggleControl(st, p)

\* One call made by a composed handler: the i-th handler, with these arguments.
Invocation(i, fn, ev) == [i |-> i, fn |-> fn, args |-> ev]

\* The composed handler so far, with one more handler called.
Called(run, i, fn, ev, r) ==
  [run EXCEPT !.trace = Append(@, Invocation(i, fn, ev)),
              !.queued = @ \o r.queued, !.cbs = @ \o r.cbs,
              !.thrown = r.thrown]

RECURSIVE forEach_StopsAtAbsent(_, _, _, _, _, _, _)
\* Mutation: the first absent handler ends the loop.
forEach_StopsAtAbsent(fns, i, ev, run, v, st, p) ==
  IF i > Len(fns) \/ run.thrown \/ fns[i] = "absent" THEN run
  ELSE LET fn == fns[i]
           next ==
             CASE fn = "log" ->
                    Called(run, i, fn, ev, Ran(<<>>, <<>>, FALSE))
               [] fn = "throw" ->
                    Called(run, i, fn, ev, Ran(<<>>, <<>>, TRUE))
               [] fn = "toggle" ->
                    Called(run, i, fn, ev,
                           engineOnClick(v, st, ToggleArg(ev), p))
       IN  forEach_StopsAtAbsent(fns, i + 1, ev, next, v, st, p)

RECURSIVE forEach_Swallows(_, _, _, _, _, _, _)
\* Mutation: a handler's exception is caught and the loop goes on.
forEach_Swallows(fns, i, ev, run, v, st, p) ==
  IF i > Len(fns) THEN run
  ELSE LET fn == fns[i]
           next ==
             CASE fn = "absent" -> run
               [] fn = "log" ->
                    Called(run, i, fn, ev, Ran(<<>>, <<>>, FALSE))
               [] fn = "throw" ->
                    Called(run, i, fn, ev, Ran(<<>>, <<>>, FALSE))
               [] fn = "toggle" ->
                    Called(run, i, fn, ev,
                           [engineOnClick(v, st, ToggleArg(ev), p)
                              EXCEPT !.thrown = FALSE])
       IN  forEach_Swallows(fns, i + 1, ev, next, v, st, p)

RECURSIVE forEach(_, _, _, _, _, _, _)
\* fns.forEach(fn => fn && fn(...args)) from the i-th handler on: an
\* exception thrown by a handler's call ends the loop.  The Toggle's handler
\* returns when it has handed its update to setState.
forEach(fns, i, ev, run, v, st, p) ==
  IF i > Len(fns) \/ run.thrown THEN run
  ELSE LET fn == fns[i]
           next ==
             CASE fn = "absent" -> run
               [] fn = "log" ->
                    Called(run, i, fn, ev, Ran(<<>>, <<>>, FALSE))
               [] fn = "throw" ->
                    Called(run, i, fn, ev, Ran(<<>>, <<>>, TRUE))
               [] fn = "toggle" ->
                    Called(run, i, fn, ev,
                           engineOnClick(v, st, ToggleArg(ev), p))
       IN  forEach(fns, i + 1, ev, next, v, st, p)

\* callAll(...fns)(...args)
callAll(fns, ev, st, v, p) ==
  forEach(fns, 1, ev, Ran(<<>>, <<>>, FALSE), v, st, p)

\* ({onClick, ...props} = {}): the destructured argument
onClickOf(arg) ==
  IF arg.t = "obj" /\ "onClick" \in DOMAIN arg.v
    THEN arg.v.onClick ELSE "absent"

propsOf(arg) == IF arg.t = "obj" THEN Rest(arg.v, "onClick") ELSE EmptyObj

\* Mutation: callAll(this.toggle, onClick)
getTogglerProps_EngineFirst(st, arg) ==
  Spread(("onClick" :> <<"toggle", onClickOf(arg)>>)
           @@ ("aria-pressed" :> st.on),
         propsOf(arg))

\* Mutation: {...props, onClick: ..., 'aria-pressed': this.state.on}
getTogglerProps_EngineWins(st, arg) ==
  Spread(propsOf(arg),
         ("onClick" :> <<onClickOf(arg), "toggle">>)
           @@ ("aria-pressed" :> st.on))

\* State Reducers Toggle:
\* {onClick: callAll(onClick, this.toggle), 'aria-pressed': on, ...props}
getTogglerProps(st, arg) ==
  Spread(("onClick" :> <<onClickOf(arg), "toggle">>)
           @@ ("aria-pressed" :> st.on),
         propsOf(arg))

\* Typed Toggle:
\* {onClick: callAll(onClick, () => this.toggle()), 'aria-pressed': on, ...props}
getTogglerPropsTyped(st, arg) ==
  Spread(("onClick" :> <<onClickOf(arg), "toggle">>)
           @@ ("aria-pressed" :> st.on),
         propsOf(arg))

\* State Initializers Toggle:
\* {'aria-pressed': on, onClick: callAll(onClick, this.toggle), ...props}
getTogglerPropsInitializers(st, arg) ==
  Spread(("aria-pressed" :> st.on)
           @@ ("onClick" :> <<onClickOf(arg), "toggle">>),
         propsOf(arg))

\* Control Props Toggle: <Switch on={on} onClick={this.toggle} />
switchProps(st, p) ==
  ("on" :> render(st, p)) @@ ("onClick" :> <<"toggle">>)

\* The attributes the clicked element was rendered with.
bundleOf(v, st, p, arg) ==
  CASE v = "reducer"      -> getTogglerProps(st, arg)
    [] v = "typed"        -> getTogglerPropsTyped(st, arg)
    [] v = "initializers" -> getTogglerPropsInitializers(st, arg)
    [] v = "control"      -> switchProps(st, p)

-----------------------------------------------------------------------------
(* The state machine *)

\* What the most recent step did (op "init": nothing yet), with the state bag
\* and Usage's timesClicked it started from.  For a handler call: the updates
\* it handed to setState, the consumer's handlers it called, its exception;
\* for React's processing (op "process"): one record per update processed,
\* the callbacks delivered, the exception of an updater or a callback.
Last(op, arg, st, p, tc, r) ==
  [op |-> op, arg |-> arg, before |-> st, clicks |-> tc,
   controlled |-> isControlled(p, "on"),
   queued |-> r.queued, cbs |-> r.cbs, thrown |-> r.thrown,
   trace |-> r.trace, reqs |-> <<>>,
   override |-> "none", bundle |-> EmptyObj,
   supplied |-> p.on, owner |-> usage, batch |-> <<>>]

\* The consumer's handlers run by the delivered callbacks, in order.
RECURSIVE AfterCallbacks(_, _, _)
AfterCallbacks(cbs, p, tc) ==
  IF cbs = <<>> THEN tc
  ELSE AfterCallbacks(Tail(cbs), p,
                      IF Head(cbs).name = "onToggle" THEN handleToggle(p, tc)
                      ELSE handleReset(p, tc))

\* The Toggle as constructed from the consumer's props.
Constructed(v, initialOn, r, on, onToggle, onReset) ==
  /\ variant = v
  /\ props = [initialOn |-> initialOn, stateReducer |-> r, on |-> on,
              onToggle |-> onToggle, onReset |-> onReset]
  /\ initialState = [on |-> initialOn]
  /\ state = initialState
  /\ queue = <<>>
  /\ timesClicked = 0
  /\ nToggles = 0
  /\ onlyToggles = TRUE
  /\ usage = [bothOn |-> FALSE]
  /\ instances = [i \in 1..2 |->
                    [props |-> renderUsage(usage)[i], state |-> [on |-> FALSE],
                     queue |-> <<>>]]
  /\ last = Last("init", "none", state, props, timesClicked,
                 Ran(<<>>, <<>>, FALSE))

Init ==
  \E v \in Variants : \E initialOn \in BOOLEAN, r \in ReducersOf(v),
     on \in {Undefined, Some(TRUE), Some(FALSE)},
     onToggle \in BOOLEAN, onReset \in BOOLEAN :
    /\ v = "control" => (initialOn = FALSE /\ onReset = FALSE)
    /\ v \in {"reducer", "typed"} => onReset
    /\ v # "control" => on = Undefined
    /\ r \in {"usage", "usageTyped"} => (onToggle /\ onReset)
    /\ Constructed(v, initialOn, r, on, onToggle, onReset)

\* A handler of the Toggle is called and returns (or throws): its updates
\* wait for React, the consumer's handlers it called itself have run.
Request(op, arg, r) ==
  /\ Len(queue) + Len(r.queued) <= MaxPending
  /\ queue' = queue \o TagAll(r.queued, op, arg)
  /\ timesClicked' = AfterCallbacks(r.cbs, props, timesClicked)
  /\ last' = Last(op, arg, state, props, timesClicked, r)
  /\ UNCHANGED <<variant, props, initialState, state, usage, instances>>

Toggle(arg) ==
  /\ timesClicked < MaxToggles
  /\ variant # "typed" => arg = "none"
  /\ Request("toggle", arg,
       CASE variant = "reducer" -> toggle
         [] variant = "typed" -> toggleTyped(ToggleArg(arg))
         [] variant = "initializers" -> toggleInitializers
         [] variant = "control" -> toggleControl(state, props))
  /\ UNCHANGED <<nToggles, onlyToggles>>

\* A click on the element rendered with getTogglerProps(override) (with the
\* Switch's props in the Control Props Toggle).  The click is a toggle request
\* when the composed handler reaches the Toggle's handler.
Click(ev, ov) ==
  /\ timesClicked < MaxToggles
  /\ variant = "control" => ov = "noarg"
  /\ LET bundle == bundleOf(variant, state, props, Override(ov, state))
         r == callAll(bundle.onClick, ev, state, variant, props)
         ran == \E i \in 1..Len(r.trace) : r.trace[i].fn = "toggle"
         op == IF ran THEN "click" ELSE "clickAborted"
     IN  /\ Len(queue) + Len(r.queued) <= MaxPending
         /\ queue' = queue \o TagAll(r.queued, op, ev)
         /\ timesClicked' = AfterCallbacks(r.cbs, props, timesClicked)
         /\ last' = [Last(op, ev, state, props, timesClicked, r)
                       EXCEPT !.override = ov, !.bundle = bundle]
  /\ UNCHANGED <<variant, props, initialState, state, nToggles, onlyToggles,
                 usage, instances>>

Reset(defaultOn) ==
  /\ variant # "control"
  /\ variant # "initializers" => defaultOn = props.initialOn
  /\ Request("reset", BoolName(defaultOn),
       CASE variant = "reducer" -> reset(state, initialState)
         [] variant = "typed" -> resetTyped(initialState)
         [] variant = "initializers" ->
              resetInitializers(state, initialState, defaultOn, props))
  /\ UNCHANGED <<nToggles, onlyToggles>>

\* internalSetState(changes) called with no callback.
Propose(req) ==
  /\ variant \in {"reducer", "typed"}
  /\ Request("propose", req,
       Enqueue(variant, ProposeArg(req), "none"))
  /\ UNCHANGED <<nToggles, onlyToggles>>

\* What React's processing f leaves: the committed state bag and the
\* consumer's handlers run by the callbacks.
Commit(f) ==
  /\ state' = f.state
  /\ timesClicked' = AfterCallbacks(f.cbs, props, timesClicked)
  /\ last' = [Last("process", "none", state, props, timesClicked,
                   Ran(<<>>, f.cbs, f.thrown))
                EXCEPT !.reqs = f.recs]

\* React processes the updates recorded since it last did: the updaters in
\* order, the commit, the callbacks in order.
Process ==
  /\ queue # <<>>
  /\ Commit(flush(queue, state, props, timesClicked))
  /\ queue' = <<>>
  /\ UNCHANGED <<variant, props, initialState, nToggles, onlyToggles, usage,
                 instances>>

\* Mutation: the Toggle adopts the value it was last given when the prop goes.
SupplyOn_AdoptsProp(on) ==
  /\ variant = "control"
  /\ on # props.on
  /\ props' = [props EXCEPT !.on = on]
  /\ state' = IF isControlled(props, "on") /\ on = Undefined
                THEN [state EXCEPT !.on = Val(props.on)]
                ELSE state
  /\ last' = Last("supply", "none", state, props, timesClicked,
                  Ran(<<>>, <<>>, FALSE))
  /\ onlyToggles' = FALSE
  /\ UNCHANGED <<variant, initialState, queue, timesClicked, nToggles, usage,
                 instances>>

\* The owner re-renders the Control Props Toggle with another `on` prop.
SupplyOn(on) ==
  /\ variant = "control"
  /\ on # props.on
  /\ props' = [props EXCEPT !.on = on]
  /\ last' = Last("supply", "none", state, props, timesClicked,
                  Ran(<<>>, <<>>, FALSE))
  /\ onlyToggles' = FALSE
  /\ UNCHANGED <<variant, initialState, state, queue, timesClicked, nToggles,
                 usage, instances>>

Next ==
  \/ \E arg \in ToggleArgs : Toggle(arg)
  \/ \E ev \in {"event"}, ov \in OverrideNames : Click(ev, ov)
  \/ \E defaultOn \in BOOLEAN : Reset(defaultOn)
  \/ \E req \in ProposeArgs : Propose(req)
  \/ Process
  \/ \E on \in {Undefined, Some(TRUE), Some(FALSE)} : SupplyOn(on)

Spec == Init /\ [][Next]_vars

\* callAll on its own: a State Reducers Toggle with the default reducer whose
\* handlers are composed with a consumer's in every order.
InitCallAll ==
  \E onToggle \in BOOLEAN :
    Constructed("reducer", FALSE, "identity", Undefined, onToggle, TRUE)

Compose(fns, ev) ==
  /\ LET r == callAll(fns, ev, state, variant, props)
     IN  /\ Len(queue) + Len(r.queued) <= MaxPending
         /\ queue' = queue \o TagAll(r.queued, "compose", ev)
         /\ timesClicked' = AfterCallbacks(r.cbs, props, timesClicked)
         /\ last' = [Last("compose", ev, state, props, timesClicked, r)
                       EXCEPT !.bundle = [onClick |-> fns]]
  /\ UNCHANGED <<variant, props, initialState, state, nToggles, onlyToggles,
                 usage, instances>>

NextCallAll ==
  \/ \E fns \in HandlerLists, ev \in {"none", "event"} : Compose(fns, ev)
  \/ Process

SpecCallAll == InitCallAll /\ [][NextCallAll]_vars

\* The Control Props Usage: one of its Toggles stands for both in the
\* single-Toggle variables, which no batch touches.
InitControlUsage ==
  Constructed("control", FALSE, "identity", Some(FALSE), TRUE, FALSE)

\* toggle() is called on the Toggles of `is` in turn (a click on a Switch is
\* the batch of one call), then React applies Usage's state updates, renders
\* the Toggles with the new bothOn, processes what the Toggles handed to
\* their setState, and Usage handles the onToggle calls of their callbacks.
Batch(is) ==
  /\ nToggles + Len(is) <= MaxToggles
  /\ LET b == runBatch(is, 1, instances, <<>>)
         owner == ownerAfter(usage, b.cbs)
         f == [i \in 1..2 |->
                 flush(b.instances[i].queue, b.instances[i].state,
                       renderUsage(owner)[i], 0)]
         cbs == f[1].cbs \o f[2].cbs
     IN  /\ usage' = ownerAfter(owner, cbs)
         /\ instances' = [i \in 1..2 |->
                            [props |-> renderUsage(usage')[i],
                             state |-> f[i].state, queue |-> <<>>]]
         /\ last' = [Last("batch", "none", state, props, timesClicked,
                          Ran(<<>>, b.cbs \o cbs, FALSE))
                       EXCEPT !.batch = is]
  /\ nToggles' = nToggles + Len(is)
  /\ onlyToggles' = (onlyToggles /\ Len(is) = 1)
  /\ UNCHANGED <<variant, props, initialState, state, queue, timesClicked>>

NextControlUsage == \E is \in Batches : Batch(is)

SpecControlUsage == InitControlUsage /\ [][NextControlUsage]_vars

TypeOK ==
  /\ variant \in Variants
  /\ "on" \in DOMAIN state
  /\ Len(queue) <= MaxPending
  /\ timesClicked \in 0..(MaxToggles + MaxPending)
  /\ nToggles \in 0..MaxToggles

-----------------------------------------------------------------------------
(* Properties *)

\* The most recent step was a call of toggle (direct or by a click).
IsToggleOp == last.op \in {"toggle", "click"}

\* The updates React processed in the most recent step (none when that step
\* was a handler call), each with the state bag its updater started from, the
\* state bag it produced, and the callback delivered for it.
Processed == last.reqs

\* The update was made by a call of toggle (direct or by a click).
IsToggleReq(q) == q.op \in {"toggle", "click"}

\* The update was made by toggle or reset.
IsLifecycleReq(q) == q.op \in {"toggle", "click", "reset"}

\* The resolved request of a processed update, without its type tag.
RequestOf(q) ==
  CASE IsToggleReq(q)     -> JSObj([on |-> ~q.before.on])
    [] q.op = "reset"     -> JSObj(initialState)
    [] q.op = "propose"   -> ProposeArg(q.arg)

\* What the reducer returns for the change it was handed, `|| {}` applied.
ReducerOutput(q) ==
  OrEmpty(stateReducer(props.stateReducer, q.before, q.calls[1].changes,
                       q.clicks)).v

\* The updates were processed in order, each on the state bag the one before
\* produced, and the last one's result is the committed state bag.
Chained ==
  Processed # <<>> =>
    /\ Processed[1].before = last.before
    /\ \A k \in 2..Len(Processed) :
         Processed[k].before = Processed[k - 1].after
    /\ ~last.thrown => state = Processed[Len(Processed)].after

\* C1: for an uncontrolled Toggle with the identity stateReducer every
\* processed toggle request negates `on` once and changes no other key, so
\* that n toggle requests processed together take `on` from b to
\* b XOR (n is odd); by induction from the constructed {on: initialOn} that
\* is the parity law.
C1_ToggleParity ==
  /\ (variant \in {"reducer", "control"} /\ last.op = "init")
       => state = [on |-> props.initialOn]
  /\ (/\ variant \in {"reducer", "control"}
      /\ props.stateReducer = "identity" /\ ~last.controlled
      /\ last.op = "process"
      /\ \A k \in DOMAIN Processed : IsToggleReq(Processed[k]))
       => /\ \A k \in DOMAIN Processed :
               Processed[k].after = [Processed[k].before EXCEPT !.on = ~@]
          /\ Chained
          /\ state = [last.before EXCEPT
                        !.on = (@ # (Len(Processed) % 2 = 1))]

C1_Witness ==
  /\ variant = "reducer" /\ props.stateReducer = "identity"
  /\ ~props.initialOn
  /\ last.op = "process" /\ Len(Processed) = 2
  /\ \A k \in DOMAIN Processed : IsToggleReq(Processed[k])
  /\ last.before = [on |-> TRUE] /\ Processed[1].after = [on |-> FALSE]
  /\ state = [on |-> TRUE]

\* C2: a toggle of a Toggle whose `on` prop is supplied hands nothing to
\* setState and leaves the internal state bag as it was, and getState('on')
\* reads the supplied value before and after it.
C2_ControlledNeverWritten ==
  (IsToggleOp /\ last.controlled)
    => /\ last.queued = <<>>
       /\ state = last.before
       /\ getState(last.before, props, "on") = Val(props.on)
       /\ getState(state, props, "on") = Val(props.on)

C2_Witness ==
  /\ variant = "control" /\ last.op = "toggle" /\ last.controlled
  /\ props.on = Some(TRUE) /\ state = [on |-> FALSE]
  /\ queue = <<>>

\* C3 as stated: a controlled toggle calls the consumer's onToggle exactly
\* once with the value the toggle would have committed after reduction
\* through the stateReducer.
C3_ReducedNotification ==
  (IsToggleOp /\ last.controlled /\ props.onToggle)
    => /\ Len(last.cbs) = 1
       /\ last.cbs[1].name = "onToggle"
       /\ last.cbs[1].value =
            OrEmpty(stateReducer(props.stateReducer, last.before,
                                 JSObj([on |-> ~Val(props.on)]),
                                 last.clicks)).v.on

\* C4: in the State Reducers Toggle the state after each processed request is
\* the state before it overwritten by stateReducer(stateBefore,
\* resolvedRequest), the reducer was called once with exactly these
\* arguments, and the state bag committed is the result of the last request.
C4_ReducerOutputCommitted ==
  variant = "reducer"
    => /\ Chained
       /\ \A k \in DOMAIN Processed :
            LET q == Processed[k]
            IN  /\ Len(q.calls) = 1
                /\ q.calls[1] = [state |-> q.before, changes |-> RequestOf(q)]
                /\ q.after =
                     Spread(q.before,
                            OrEmpty(stateReducer(props.stateReducer, q.before,
                                                 RequestOf(q), q.clicks)).v)

C4_Witness ==
  /\ variant = "reducer" /\ props.stateReducer = "forceOff"
  /\ last.op = "process" /\ Len(Processed) = 1
  /\ Processed[1].op = "propose" /\ Processed[1].arg = "onTrue"
  /\ state.on = FALSE

\* C5: when the reducer returns {} or nothing, or returns the empty request
\* unchanged (in the typed Toggle: nothing but a type tag), the request hands
\* React a null update, the state bag is unchanged by it, and a settle
\* callback, if any, reports the value `on` already had.
C5_EmptyChangeIsNoOp ==
  variant \in {"reducer", "typed"}
    => \A k \in DOMAIN Processed :
         LET q == Processed[k]
         IN  (IF variant = "typed" THEN Rest(ReducerOutput(q), "type")
                                   ELSE ReducerOutput(q)) = EmptyObj
               => /\ q.after = q.before
                  /\ q.partial = JSNull
                  /\ \A cb \in q.settled : cb.value = q.before.on

C5_Witness ==
  /\ variant = "reducer" /\ props.stateReducer = "nothing"
  /\ last.op = "process" /\ Len(Processed) = 1
  /\ Processed[1].op = "toggle" /\ Processed[1].before.on
  /\ Processed[1].settled # {} /\ state = last.before
  /\ Len(last.cbs) = 1 /\ last.cbs[1].value = TRUE

\* C6: with the identity stateReducer every processed reset leaves every key
\* of the snapshot taken at construction at the snapshot's value, and the
\* snapshot is always {on: initialOn}.
C6_ResetLaw ==
  /\ initialState = [on |-> props.initialOn]
  /\ props.stateReducer = "identity"
       => \A k \in DOMAIN Processed :
            Processed[k].op = "reset"
              => \A key \in DOMAIN initialState :
                   Processed[k].after[key] = initialState[key]

C6_Witness ==
  /\ variant = "reducer" /\ props.stateReducer = "identity"
  /\ last.op = "process" /\ Len(Processed) = 1
  /\ Processed[1].op = "reset"
  /\ last.before.on # initialState.on /\ state = initialState
  /\ ~last.thrown

\* C7: a processed reset calls the reducer once with (state before, snapshot
\* [plus the type tag in the typed Toggle]), its result is the reducer's
\* output merged, and every snapshot key whose value after the reset is not
\* the snapshot's is a key the reducer dropped or gave another value.
C7_ResetThroughReducer ==
  variant \in {"reducer", "typed"}
    => \A k \in DOMAIN Processed :
         LET q == Processed[k]
         IN  q.op = "reset"
               => /\ Len(q.calls) = 1
                  /\ q.calls[1].state = q.before
                  /\ Rest(q.calls[1].changes.v, "type") = initialState
                  /\ q.after =
                       Spread(q.before,
                              IF variant = "typed"
                                THEN Rest(ReducerOutput(q), "type")
                                ELSE ReducerOutput(q))
                  /\ \A key \in DOMAIN initialState :
                       q.after[key] # initialState[key]
                         => \/ key \notin DOMAIN ReducerOutput(q)
                            \/ ReducerOutput(q)[key] # initialState[key]

C7_Witness ==
  /\ variant = "reducer" /\ props.stateReducer = "usage"
  /\ props.initialOn /\ last.op = "process" /\ Len(Processed) = 1
  /\ Processed[1].op = "reset" /\ last.clicks >= ClickLimit
  /\ state.on = FALSE /\ timesClicked = 0

\* C8 as stated: every settle callback of an uncontrolled toggle or reset is
\* delivered after the commit and its argument is what `on` reads at that
\* moment.
C8_SettleAfterCommit ==
  ~last.controlled
    => \A i \in 1..Len(last.cbs) :
         /\ last.cbs[i].phase = "post"
         /\ last.cbs[i].value = last.cbs[i].seen

\* C9 as stated: the state bag never has a `type` key.
C9_NoTypeKey == "type" \notin DOMAIN state

\* C10: in the typed Toggle the reducer receives type 'toggle' for a toggle
\* called with no argument or an empty object and for a click through the
\* prop getter, and type 'reset' for every reset.
C10_DefaultTypeTag ==
  variant = "typed"
    => \A k \in DOMAIN Processed :
         LET q == Processed[k]
         IN  (\/ q.op = "toggle" /\ q.arg \in {"none", "empty"}
              \/ q.op \in {"click", "reset"})
               => /\ Len(q.calls) = 1
                  /\ "type" \in DOMAIN q.calls[1].changes.v
                  /\ q.calls[1].changes.v.type =
                       (IF q.op = "reset" THEN "reset" ELSE "toggle")

C10_Witness ==
  /\ variant = "typed" /\ last.op = "process" /\ Len(Processed) = 1
  /\ Processed[1].op = "click" /\ Processed[1].arg = "event"
  /\ Processed[1].calls[1].changes.v.type = "toggle"

\* The handlers composed by the most recent click or composition.
ComposedFns == last.bundle.onClick

\* The calls a composition of fns makes up to its n-th handler, absent
\* handlers skipped.
RECURSIVE CallsUpTo(_, _, _)
CallsUpTo(fns, n, ev) ==
  IF n = 0 THEN <<>>
  ELSE IF fns[n] = "absent" THEN CallsUpTo(fns, n - 1, ev)
  ELSE Append(CallsUpTo(fns, n - 1, ev), Invocation(n, fns[n], ev))

\* The position of the first throwing handler of fns (0: none throws).
FirstThrow(fns) ==
  IF \E i \in DOMAIN fns : fns[i] = "throw"
    THEN CHOOSE i \in DOMAIN fns :
           /\ fns[i] = "throw"
           /\ \A j \in 1..(i - 1) : fns[j] # "throw"
    ELSE 0

\* C11 as stated: a click on an element whose getTogglerProps override has
\* its own onClick calls the Toggle's handler first and the override's
\* second, once each, with the click's arguments.
C11_EngineThenOverride ==
  (variant # "control" /\ last.op = "click" /\ last.override = "log")
    => last.trace = <<Invocation(2, "toggle", last.arg),
                      Invocation(1, "log", last.arg)>>

\* C11 (amended): such a click calls the override's onClick first and the
\* Toggle's handler second, once each, both with the click's arguments.
C11_OverrideThenEngine ==
  (variant # "control" /\ last.op = "click" /\ last.override = "log")
    => /\ ComposedFns = <<"log", "toggle">>
       /\ last.trace = <<Invocation(1, "log", last.arg),
                         Invocation(2, "toggle", last.arg)>>
       /\ Len(last.queued) = 1

C11_Witness ==
  /\ variant = "reducer" /\ last.op = "click" /\ last.override = "log"
  /\ Len(last.trace) = 2 /\ last.trace[1].fn = "log"
  /\ last.trace[2].fn = "toggle" /\ last.trace[2].args = "event"
  /\ Len(last.queued) = 1 /\ last.queued[1].cb = "onToggle"

\* C12: when none of the composed handlers throws, callAll(f1..fn)(args)
\* calls exactly the non-absent handlers, once each, in the order supplied,
\* each with args, and returns normally, whether or not the Toggle has an
\* onToggle and also when every handler is absent; without the Toggle's
\* handler among them nothing is handed to setState.
C12_CallAllInOrder ==
  (last.op = "compose" /\ FirstThrow(ComposedFns) = 0)
    => /\ last.trace = CallsUpTo(ComposedFns, Len(ComposedFns), last.arg)
       /\ ~last.thrown
       /\ state = last.before
       /\ Len(last.queued) =
            Cardinality({i \in DOMAIN ComposedFns : ComposedFns[i] = "toggle"})

\* The Toggle's handler first, a consumer's after it, no onToggle supplied:
\* both are called.
C12_Witness ==
  /\ last.op = "compose" /\ ComposedFns = <<"toggle", "absent", "log">>
  /\ ~props.onToggle
  /\ last.arg = "event" /\ Len(last.trace) = 2
  /\ last.trace[2] = Invocation(3, "log", "event")
  /\ Len(last.queued) = 1

\* C13: when a composed handler throws, the composition throws, the calls
\* made are those up to the throwing handler and none after it, a Toggle
\* handler placed after it hands nothing to setState (the state bag stays as
\* it is), and the update of a Toggle handler placed before it stays handed
\* to setState.
C13_FailFast ==
  (last.op = "compose" /\ FirstThrow(ComposedFns) > 0)
    => LET t == FirstThrow(ComposedFns)
       IN  /\ last.thrown
           /\ last.trace = CallsUpTo(ComposedFns, t, last.arg)
           /\ state = last.before
           /\ (\A i \in 1..(t - 1) : ComposedFns[i] # "toggle")
                => last.queued = <<>>
           /\ (\E i \in 1..(t - 1) : ComposedFns[i] = "toggle")
                => /\ last.queued = toggle.queued
                   /\ queue # <<>>
                   /\ queue[Len(queue)] =
                        Tagged(toggle.queued[1], "compose", last.arg)

C13_Witness ==
  /\ last.op = "compose" /\ last.thrown
  /\ ComposedFns =
       getTogglerProps(last.before, Override("throw", last.before)).onClick
  /\ last.trace = <<Invocation(1, "throw", last.arg)>>
  /\ last.queued = <<>> /\ queue = <<>> /\ state = last.before

\* C14: in the attributes getTogglerProps(overrides) returns, every override
\* attribute other than onClick has the override's value, 'aria-pressed' is
\* the current `on` unless overridden, onClick is the composition of the
\* override's onClick and the Toggle's handler, there is no other attribute,
\* and with no argument the result is the Toggle's own two attributes.
C14_PropGetterMerge ==
  (variant # "control" /\ last.op \in {"click", "clickAborted"})
    => LET o == propsOf(Override(last.override, last.before))
           h == onClickOf(Override(last.override, last.before))
           b == last.bundle
       IN  /\ DOMAIN b = DOMAIN o \cup {"onClick", "aria-pressed"}
           /\ \A k \in DOMAIN o : b[k] = o[k]
           /\ "aria-pressed" \notin DOMAIN o
                => b["aria-pressed"] = last.before.on
           /\ b.onClick \in {<<h, "toggle">>, <<"toggle", h>>}
           /\ last.override = "noarg"
                => b = ("onClick" :> <<"absent", "toggle">>)
                         @@ ("aria-pressed" :> last.before.on)

C14_Witness ==
  /\ variant = "reducer" /\ last.op = "click" /\ last.override = "aria"
  /\ last.bundle["aria-pressed"] = ~last.before.on
  /\ last.bundle["id"] = "custom-button-id"
  /\ last.bundle.onClick = <<"absent", "toggle">>

\* C15 as stated: every toggle and every reset completes without an
\* exception, in the call and when React processes it, whether or not the
\* consumer supplied onToggle / onReset.
C15_AbsentHandlerNoCrash ==
  /\ last.op \in {"toggle", "click", "reset"} => ~last.thrown
  /\ (last.op = "process"
        /\ \A k \in DOMAIN Processed : IsLifecycleReq(Processed[k]))
       => ~last.thrown

\* C16 as stated: a request that is neither a mapping nor a function makes
\* internalSetState throw, in the call or when React runs its updater.
C16_MalformedFailsLoudly ==
  (\E k \in DOMAIN Processed :
     Processed[k].op = "propose" /\ Processed[k].arg \in Malformed)
    => last.thrown

\* C17 as stated: the keys of the state bag are always those it had at
\* construction.
C17_KeySetFixed == DOMAIN state = DOMAIN initialState

\* C18: for every processed toggle or reset of the State Reducers Toggles
\* the reducer is called exactly once, with the state bag as it stands when
\* that request is processed and the request already resolved to a mapping
\* on that same state.
C18_ReducerOnce ==
  variant \in {"reducer", "typed"}
    => /\ Chained
       /\ \A k \in DOMAIN Processed :
            LET q == Processed[k]
            IN  IsLifecycleReq(q)
                  => /\ Len(q.calls) = 1
                     /\ q.calls[1].state = q.before
                     /\ q.calls[1].changes.t = "obj"
                     /\ Rest(q.calls[1].changes.v, "type") = RequestOf(q).v

\* Two toggles processed together: the second is reduced on the result of
\* the first.
C18_Witness ==
  /\ variant = "reducer" /\ props.stateReducer = "forceOff"
  /\ props.initialOn
  /\ last.op = "process" /\ Len(Processed) = 2
  /\ Processed[1].op = "toggle" /\ Processed[2].op = "toggle"
  /\ Processed[1].before.on /\ ~Processed[1].after.on
  /\ Processed[2].calls = <<[state |-> [on |-> FALSE],
                             changes |-> JSObj([on |-> TRUE])]>>
  /\ state.on = FALSE

\* C19: in the Control Props Toggle what is rendered is the supplied `on`
\* exactly when one is supplied now and the state bag's `on` otherwise,
\* supplying or withdrawing `on` throws nothing and leaves the bag alone, and
\* a toggle follows the ownership in force when it is called: controlled it
\* hands nothing to setState, uncontrolled it hands one update that negates
\* the bag's `on`.
C19_ControlledComputedFresh ==
  variant = "control"
    => /\ render(state, props) =
            (IF props.on # Undefined THEN Val(props.on) ELSE state.on)
       /\ last.op = "supply" => (~last.thrown /\ state = last.before)
       /\ (IsToggleOp /\ last.controlled) => last.queued = <<>>
       /\ (IsToggleOp /\ ~last.controlled) => Len(last.queued) = 1
       /\ \A k \in DOMAIN Processed :
            Processed[k].after.on = ~Processed[k].before.on

C19_Witness ==
  /\ variant = "control" /\ last.op = "supply"
  /\ props.on = Some(FALSE) /\ state.on = TRUE
  /\ render(state, props) = FALSE

\* C20: in the typed Toggle with the documented reducer, once timesClicked
\* is 4 or more a processed toggle tagged 'forced' gives the negation of `on`
\* and every other toggle gives on = false.
C20_ForcedBypass ==
  (variant = "typed" /\ props.stateReducer = "usageTyped")
    => \A k \in DOMAIN Processed :
         LET q == Processed[k]
         IN  (IsToggleReq(q) /\ q.clicks >= ClickLimit)
               => IF q.op = "toggle" /\ q.arg = "forced"
                    THEN q.after.on = ~q.before.on
                    ELSE q.after.on = FALSE

C20_Witness ==
  /\ variant = "typed" /\ props.stateReducer = "usageTyped"
  /\ last.op = "process" /\ Len(Processed) = 1
  /\ Processed[1].op = "toggle" /\ Processed[1].arg = "forced"
  /\ last.clicks >= ClickLimit /\ ~last.before.on /\ state.on

\* The State Reducers Usage as rendered: Usage's reducer and handlers, no
\* initialOn prop.
IsReducersUsage ==
  variant = "reducer" /\ props.stateReducer = "usage" /\ ~props.initialOn

\* on is forced off from ClickLimit clicks on, and follows the parity of
\* timesClicked below it.
UsageLaw ==
  /\ timesClicked >= ClickLimit => state.on = FALSE
  /\ timesClicked < ClickLimit => state.on = (timesClicked % 2 = 1)

\* At most one update, made by a click on the toggler or the reset button,
\* waits for React: every click is processed before the next.
OneAtATime(q) ==
  /\ Len(q) <= 1
  /\ \A k \in DOMAIN q : q[k].op \in {"toggle", "click", "reset"}

\* C21: in the State Reducers Usage, with every click and reset processed
\* before the next, the constructed state satisfies (timesClicked >= 4 =>
\* on = false) and (timesClicked < 4 => on = (timesClicked is odd)), every
\* click on the toggler or the reset button and its processing keeps it, and
\* every processed toggle click adds exactly one to timesClicked, forced or
\* not.
C21_UsageInvariant ==
  /\ [](IsReducersUsage /\ last.op = "init" => UsageLaw)
  /\ [][(IsReducersUsage /\ UsageLaw /\ OneAtATime(queue)
          /\ OneAtATime(queue'))
        => /\ UsageLaw'
           /\ (queue # <<>> /\ queue' = <<>> /\ queue[1].op # "reset")
                => timesClicked' = timesClicked + 1]_vars

\* A click past the limit: the reducer forced on:false and the click counted.
C21_Witness ==
  /\ IsReducersUsage /\ UsageLaw
  /\ last.op = "process" /\ Len(Processed) = 1
  /\ Processed[1].op = "click" /\ last.clicks >= ClickLimit
  /\ Processed[1].reduced.v.on = FALSE /\ state.on = FALSE
  /\ timesClicked = last.clicks + 1

\* What Toggle i of the Control Props Usage renders: getState('on').
ReadsOn(i) == getState(instances[i].state, instances[i].props, "on")

\* C22: in the Control Props Usage, while every click has been processed to
\* completion before the next, both Toggles read getState('on') = bothOn,
\* bothOn is (the number of clicks is odd), and the internal `on` of both
\* Toggles is still false.
C22_SharedOwner ==
  onlyToggles =>
    /\ \A i \in 1..2 : ReadsOn(i) = usage.bothOn
    /\ usage.bothOn = (nToggles % 2 = 1)
    /\ \A i \in 1..2 : instances[i].state.on = FALSE

\* Three single clicks, the last one on the second Toggle.
C22_Witness ==
  /\ onlyToggles /\ nToggles = 3 /\ last.op = "batch" /\ last.batch = <<2>>
  /\ usage.bothOn /\ ReadsOn(1) /\ ReadsOn(2)
  /\ ~instances[1].state.on /\ ~instances[2].state.on

\* C23: when the consumer stops supplying `on`, the state bag is untouched
\* and getState('on') is at once the internally committed value, whatever was
\* last supplied; it is false when the Toggle was controlled since construction.
C23_RevertsToInternal ==
  [][(variant = "control" /\ isControlled(props, "on")
        /\ ~isControlled(props', "on"))
     => /\ state' = state
        /\ render(state', props') = state.on
        /\ onlyToggles => render(state', props') = FALSE]_vars

\* The Switch showed the supplied true, the prop went, and it shows false
\* with no toggle request in between.
C23_Witness ==
  /\ variant = "control" /\ last.op = "supply"
  /\ last.supplied = Some(TRUE) /\ props.on = Undefined
  /\ render(last.before, [props EXCEPT !.on = last.supplied]) = TRUE
  /\ render(state, props) = FALSE

\* C24: when toggle is called two or more times (on one Toggle or on both)
\* before the owner's value is supplied again, every call reports the negation
\* of the stale prop to onToggle and the owner's value ends up flipped once.
C24_StaleDoubleToggle ==
  (last.op = "batch" /\ Len(last.batch) >= 2) =>
    /\ Len(last.cbs) = Len(last.batch)
    /\ \A k \in 1..Len(last.cbs) :
         /\ last.cbs[k].name = "onToggle"
         /\ last.cbs[k].value = ~last.owner.bothOn
    /\ usage.bothOn = ~last.owner.bothOn

\* toggle on the first and then on the second Toggle within one batch.
C24_Witness ==
  /\ last.op = "batch" /\ last.batch = <<1, 2>>
  /\ ~last.owner.bothOn /\ usage.bothOn
  /\ last.cbs[1].value /\ last.cbs[2].value

=============================================================================
